---------------------------- MODULE Spec2Model ----------------------------
(***************************************************************************)
(* pebbles: a fixed-width integer expression calculator.                   *)
(*                                                                         *)
(* A machine integer is modelled by its two's-complement representation in *)
(* memory: a sequence of bytes (0..255), least-significant byte first.     *)
(* The literal container (i128) has 16 bytes, a value of a Kind of width w *)
(* has w / 8.  The arithmetic of the evaluator is the arithmetic of the    *)
(* machine on these patterns; the mathematical integers the properties     *)
(* speak of are kept apart, as sign-magnitude numbers of unbounded length  *)
(* (the Z... and N... operators).                                          *)
(***************************************************************************)
EXTENDS Integers, Sequences, FiniteSets, TLC

(***************************************************************************)
(* Byte patterns                                                           *)
(***************************************************************************)

\* n zero bytes
Zeros(n) == [i \in 1..n |-> 0]

\* the n-byte pattern of a small natural number k (k < 2^31)
RECURSIVE BytesOfNat(_, _)
BytesOfNat(k, n) ==
    IF n = 0 THEN <<>> ELSE <<k % 256>> \o BytesOfNat(k \div 256, n - 1)

IsZero(a) == \A i \in 1..Len(a) : a[i] = 0

\* the small natural number (below 2^31) a pattern holds
RECURSIVE NatOfBytes(_)
NatOfBytes(a) ==
    IF IsZero(a) THEN 0 ELSE Head(a) + 256 * NatOfBytes(Tail(a))

\* bit k of a pattern, bit 0 the least significant
Bit(a, k) == (a[(k \div 8) + 1] \div (2 ^ (k % 8))) % 2

\* the top bit: the sign of a signed pattern
SignBit(a) == a[Len(a)] \div 128

\* the n-byte pattern with only bit k set (all zero when k >= 8 * n)
PowBytes(k, n) ==
    [i \in 1..n |-> IF i = (k \div 8) + 1 THEN 2 ^ (k % 8) ELSE 0]

\* the low n bytes of a, extended with the byte `fill` above a's length
Resize(a, n, fill) == [i \in 1..n |-> IF i <= Len(a) THEN a[i] ELSE fill] \o <<>>

\* number of bits up to and including the highest set bit of a byte
RECURSIVE ByteLen(_)
ByteLen(x) == IF x = 0 THEN 0 ELSE 1 + ByteLen(x \div 2)

\* number of bits up to and including the highest set bit (0 when a is zero)
TopBit(a) ==
    LET S == {i \in 1..Len(a) : a[i] # 0}
    IN  IF S = {} THEN 0
        ELSE LET i == CHOOSE i \in S : \A j \in S : j <= i
             IN  8 * (i - 1) + ByteLen(a[i])

\* a + b + c on patterns of equal length, from byte i upwards with carry c
\* into byte i; the carry out of the top byte is dropped
RECURSIVE AddRec(_, _, _, _)
AddRec(a, b, i, c) ==
    IF i > Len(a) THEN <<>>
    ELSE LET s == a[i] + b[i] + c
         IN  <<s % 256>> \o AddRec(a, b, i + 1, s \div 256)

AddBytes(a, b, c) == AddRec(a, b, 1, c)

\* unsigned comparison a < b of the low i bytes of two patterns, from the top
RECURSIVE ULessRec(_, _, _)
ULessRec(a, b, i) ==
    IF i = 0 THEN FALSE
    ELSE IF a[i] # b[i] THEN a[i] < b[i]
    ELSE ULessRec(a, b, i - 1)

ULess(a, b) == ULessRec(a, b, Len(a))

\* bitwise and, or, exclusive or of two bytes
RECURSIVE ByteAnd(_, _)
ByteAnd(x, y) ==
    IF x = 0 \/ y = 0 THEN 0
    ELSE (x % 2) * (y % 2) + 2 * ByteAnd(x \div 2, y \div 2)

RECURSIVE ByteXor(_, _)
ByteXor(x, y) ==
    IF x = 0 THEN y ELSE IF y = 0 THEN x
    ELSE ((x + y) % 2) + 2 * ByteXor(x \div 2, y \div 2)

ByteOr(x, y) == x + y - ByteAnd(x, y)

(***************************************************************************)
(* The integer Kinds (IntType) and their capability set (trait Int)        *)
(***************************************************************************)

\* IntType: the Kinds the command line offers, with what the evaluator asks
\* of each: its bit width (T::zero().count_zeros()) and T::is_signed()
IntType ==
    { [name |-> "u8",  width |-> 8,  signed |-> FALSE],
      [name |-> "u16", width |-> 16, signed |-> FALSE],
      [name |-> "u32", width |-> 32, signed |-> FALSE],
      [name |-> "u64", width |-> 64, signed |-> FALSE],
      [name |-> "i8",  width |-> 8,  signed |-> TRUE],
      [name |-> "i16", width |-> 16, signed |-> TRUE],
      [name |-> "i32", width |-> 32, signed |-> TRUE],
      [name |-> "i64", width |-> 64, signed |-> TRUE] }

is_signed(T) == T.signed

\* T::zero().count_zeros(): every bit of zero is a zero bit
count_zeros(T) == T.width

\* bytes of a value of Kind T
SizeOf(T) == T.width \div 8

\* bytes of the literal container, i128
LitBytes == 16

\* a narrowing that cuts the literal to T's size without the range check,
\* as the cast `n as T` would
from_i128_cast(n, T) == [some |-> TRUE, val |-> SubSeq(n, 1, SizeOf(T))]

\* FromPrimitive::from_i128: Some(n as T) when n is representable in T, else
\* None.  n is representable in a signed T when it is the sign extension of
\* its low bytes, in an unsigned T when every byte above T's size (i128's
\* sign included) is zero.
from_i128(n, T) ==
    LET k == SizeOf(T)
        low == SubSeq(n, 1, k)
        fits == IF T.signed
                THEN \A i \in (k + 1)..Len(n) : n[i] = 255 * SignBit(low)
                ELSE \A i \in (k + 1)..Len(n) : n[i] = 0
    IN  IF fits THEN [some |-> TRUE, val |-> low] ELSE [some |-> FALSE]

\* PrimInt::not
not(a) == [i \in 1..Len(a) |-> 255 - a[i]] \o <<>>

bitand(a, b) == [i \in 1..Len(a) |-> ByteAnd(a[i], b[i])] \o <<>>

bitor(a, b) == [i \in 1..Len(a) |-> ByteOr(a[i], b[i])] \o <<>>

bitxor(a, b) == [i \in 1..Len(a) |-> ByteXor(a[i], b[i])] \o <<>>

\* an addition that stops at the all-ones pattern instead of wrapping
saturating_add(a, b) ==
    LET s == AddBytes(a \o <<0>>, b \o <<0>>, 0)
    IN  IF s[Len(s)] # 0 THEN [i \in 1..Len(a) |-> 255]
        ELSE SubSeq(s, 1, Len(a))

wrapping_add(a, b) == AddBytes(a, b, 0)

wrapping_sub(a, b) == AddBytes(a, not(b), 1)

wrapping_neg(a) == AddBytes(not(a), Zeros(Len(a)), 1)

\* shift left by n < 8 * Len(a) bits, zero filled
ShlBits(a, n) ==
    LET r == n % 8
        x == Zeros((n \div 8) + 1) \o a
    IN  [i \in 1..Len(a) |->
            ((x[i + 1] * (2 ^ r)) % 256) + (x[i] \div (2 ^ (8 - r)))]
        \o <<>>

\* shift right by n < 8 * Len(a) bits, the vacated bits set to the bit fill
ShrBits(a, n, fill) ==
    LET r == n % 8
        q == n \div 8
        x == a \o [i \in 1..(q + 1) |-> 255 * fill]
    IN  [i \in 1..Len(a) |->
            (x[i + q] \div (2 ^ r)) + ((x[i + q + 1] * (2 ^ (8 - r))) % 256)]
        \o <<>>

\* a * m + carry for a byte m, from byte i of a upwards, cut to a's length
RECURSIVE MulSmall(_, _, _, _)
MulSmall(a, m, i, c) ==
    IF i > Len(a) THEN <<>>
    ELSE LET p == a[i] * m + c
         IN  <<p % 256>> \o MulSmall(a, m, i + 1, p \div 256)

\* the sum, modulo 2^(8 * Len(a)), of (a * b[j]) << 8 * (j - 1) over j >= i
RECURSIVE MulRec(_, _, _)
MulRec(a, b, j) ==
    IF j > Len(b) THEN Zeros(Len(a))
    ELSE wrapping_add(
             SubSeq(Zeros(j - 1) \o MulSmall(a, b[j], 1, 0), 1, Len(a)),
             MulRec(a, b, j + 1))

wrapping_mul(a, b) == MulRec(a, b, 1)

\* <int>::wrapping_shl(rhs: u32): the amount is masked to the width
wrapping_shl(a, n) == ShlBits(a, n % (8 * Len(a)))

\* a right shift that fills with zeros whatever the type
logical_shr(a, n, T) == ShrBits(a, n % (8 * Len(a)), 0)

\* <int>::wrapping_shr(rhs: u32): the amount is masked to the width; the
\* shift is arithmetic on a signed type and logical on an unsigned one
wrapping_shr(a, n, T) ==
    ShrBits(a, n % (8 * Len(a)), IF T.signed THEN SignBit(a) ELSE 0)

\* restoring long division of unsigned patterns, b nonzero (bx is b with one
\* more byte): bits hi..lo of the dividend enter the running remainder rem
\* in turn, the remainder giving up b whenever it holds it; yields the
\* quotient bits hi..lo (most-significant first) and the remainder left.
\* The range is halved, the remainder of the high half entering the low half.
RECURSIVE UDivRange(_, _, _, _, _)
UDivRange(a, bx, lo, hi, rem) ==
    IF lo > hi THEN [q |-> <<>>, r |-> rem]
    ELSE IF lo = hi
    THEN LET sh == AddBytes(ShlBits(rem, 1), Zeros(Len(rem)), Bit(a, lo - 1))
         IN  IF ULess(sh, bx) THEN [q |-> <<0>>, r |-> sh]
             ELSE [q |-> <<1>>, r |-> AddBytes(sh, not(bx), 1)]
    ELSE LET mid == (lo + hi) \div 2
             high == UDivRange(a, bx, mid + 1, hi, rem)
             low == UDivRange(a, bx, lo, mid, high.r)
         IN  [q |-> high.q \o low.q, r |-> low.r]

\* the n-byte pattern of a sequence of bits given most-significant first
BytesOfBits(bs, n) ==
    LET bit(k) == IF k < Len(bs) THEN bs[Len(bs) - k] ELSE 0
    IN  [i \in 1..n |->
            bit(8 * i - 8) + 2 * bit(8 * i - 7) + 4 * bit(8 * i - 6)
            + 8 * bit(8 * i - 5) + 16 * bit(8 * i - 4) + 32 * bit(8 * i - 3)
            + 64 * bit(8 * i - 2) + 128 * bit(8 * i - 1)]

UDivRem(a, b) ==
    LET d == UDivRange(a, Resize(b, Len(b) + 1, 0), 1, TopBit(a),
                       Zeros(Len(a) + 1))
    IN  [q |-> BytesOfBits(d.q, Len(a)), r |-> SubSeq(d.r, 1, Len(a))]

\* the magnitude of a signed pattern, as an unsigned pattern of the same size
UAbs(a) == IF SignBit(a) = 1 THEN wrapping_neg(a) ELSE a

\* T::MIN of a signed type and -1, as patterns of n bytes
MinBytes(n) == PowBytes(8 * n - 1, n)

AllOnes(n) == [i \in 1..n |-> 255]

\* the division traps (panics) exactly when the divisor is zero
DivTraps(b) == IsZero(b)

\* <int>::wrapping_div, divisor nonzero: the quotient truncated toward zero;
\* MIN / -1, the one quotient a signed type cannot hold, is MIN
wrapping_div(a, b, T) ==
    IF ~T.signed THEN UDivRem(a, b).q
    ELSE IF a = MinBytes(Len(a)) /\ b = AllOnes(Len(a)) THEN a
    ELSE LET q == UDivRem(UAbs(a), UAbs(b)).q
         IN  IF SignBit(a) # SignBit(b) THEN wrapping_neg(q) ELSE q

\* a remainder that is never negative (rem_euclid)
rem_euclid(a, b, T) ==
    IF ~T.signed THEN UDivRem(a, b).r
    ELSE LET r == UDivRem(UAbs(a), UAbs(b)).r
         IN  IF SignBit(a) = 1 /\ ~IsZero(r) THEN wrapping_sub(UAbs(b), r)
             ELSE r

\* <int>::wrapping_rem, divisor nonzero: the remainder has the sign of the
\* dividend; MIN % -1 is 0
wrapping_rem(a, b, T) ==
    IF ~T.signed THEN UDivRem(a, b).r
    ELSE IF a = MinBytes(Len(a)) /\ b = AllOnes(Len(a)) THEN Zeros(Len(a))
    ELSE LET r == UDivRem(UAbs(a), UAbs(b)).r
         IN  IF SignBit(a) = 1 THEN wrapping_neg(r) ELSE r

\* a conversion by value instead of by bytes: the magnitude of a pattern
\* whose top bit is set
as_magnitude(a) == IF SignBit(a) = 1 THEN wrapping_neg(a) ELSE a

\* AsUnsigned::as_unsigned: `*self as Unsigned`, the same bytes
as_unsigned(a) == a

\* ToPrimitive::to_u32: Some(a as u32) when the value is in 0..=u32::MAX
to_u32(a, T) ==
    IF (T.signed /\ SignBit(a) = 1) \/ TopBit(a) > 32 THEN [some |-> FALSE]
    ELSE [some |-> TRUE, val |-> a]

\* NumCast::from (T::from) of a small count k: Some(k as T) when k is
\* representable in T
from_small(k, T) ==
    IF TopBit(BytesOfNat(k, 4)) <= (IF T.signed THEN T.width - 1 ELSE T.width)
    THEN [some |-> TRUE, val |-> BytesOfNat(k, SizeOf(T))]
    ELSE [some |-> FALSE]

(***************************************************************************)
(* Mathematical integers, for stating the properties: a natural number is  *)
(* a byte sequence of any length (least-significant first), an integer is  *)
(* a sign and a magnitude.  Nothing here is cut to a width.                *)
(***************************************************************************)

NMax(m, n) == IF m >= n THEN m ELSE n

NEq(x, y) ==
    LET n == NMax(Len(x), Len(y)) IN Resize(x, n, 0) = Resize(y, n, 0)

NLess(x, y) ==
    LET n == NMax(Len(x), Len(y)) IN ULess(Resize(x, n, 0), Resize(y, n, 0))

NAdd(x, y) ==
    LET n == NMax(Len(x), Len(y)) + 1
    IN  AddBytes(Resize(x, n, 0), Resize(y, n, 0), 0)

\* x - y for x >= y
NSub(x, y) ==
    LET n == NMax(Len(x), Len(y))
    IN  AddBytes(Resize(x, n, 0), not(Resize(y, n, 0)), 1)

\* the sum of x * y[j] * 256^(j - 1) over j >= i, in full
RECURSIVE NMulRec(_, _, _)
NMulRec(x, y, j) ==
    IF j > Len(y) THEN <<>>
    ELSE NAdd(Zeros(j - 1) \o MulSmall(x \o <<0>>, y[j], 1, 0),
              NMulRec(x, y, j + 1))

NMul(x, y) == NMulRec(x, y, 1)

\* 2^k
NPow2(k) == PowBytes(k, (k \div 8) + 1)

ZMk(neg, mag) == [neg |-> neg /\ ~IsZero(mag), mag |-> mag]

ZNat(k) == ZMk(FALSE, BytesOfNat(k, 4))

ZNeg(x) == ZMk(~x.neg, x.mag)

ZEq(x, y) == x.neg = y.neg /\ NEq(x.mag, y.mag)

ZLess(x, y) ==
    IF x.neg # y.neg THEN x.neg
    ELSE IF x.neg THEN NLess(y.mag, x.mag) ELSE NLess(x.mag, y.mag)

ZLe(x, y) == ZLess(x, y) \/ ZEq(x, y)

ZAdd(x, y) ==
    IF x.neg = y.neg THEN ZMk(x.neg, NAdd(x.mag, y.mag))
    ELSE IF NLess(x.mag, y.mag) THEN ZMk(y.neg, NSub(y.mag, x.mag))
    ELSE ZMk(x.neg, NSub(x.mag, y.mag))

ZSub(x, y) == ZAdd(x, ZNeg(y))

ZMul(x, y) == ZMk(x.neg # y.neg, NMul(x.mag, y.mag))

ZAbs(x) == ZMk(FALSE, x.mag)

\* x and y differ by a multiple of 2^w
ZCongruent(x, y, w) ==
    LET d == ZSub(x, y).mag
    IN  \A k \in 0..(w - 1) : k < 8 * Len(d) => Bit(d, k) = 0

\* the integer a pattern denotes: two's complement when signed
ZOf(a, signed) ==
    IF signed /\ SignBit(a) = 1
    THEN ZMk(TRUE, NSub(NPow2(8 * Len(a)), a))
    ELSE ZMk(FALSE, a)

\* the integer a value of Kind T denotes, and the one a literal denotes
ZVal(a, T) == ZOf(a, T.signed)

ZLit(n) == ZOf(n, TRUE)

\* Kind::MIN and Kind::MAX
ZMin(T) == IF T.signed THEN ZMk(TRUE, NPow2(T.width - 1)) ELSE ZNat(0)

ZMax(T) ==
    IF T.signed THEN ZMk(FALSE, NSub(NPow2(T.width - 1), <<1>>))
    ELSE ZMk(FALSE, NSub(NPow2(T.width), <<1>>))

ZInRange(z, T) == ZLe(ZMin(T), z) /\ ZLe(z, ZMax(T))

(***************************************************************************)
(* The expression tree (enum Expr) and its evaluation (Expr::eval)         *)
(***************************************************************************)

Num(n) == [op |-> "Num", n |-> n]

Unary(op, e) == [op |-> op, e |-> e]

Binary(op, l, r) == [op |-> op, l |-> l, r |-> r]

UnaryOps == {"Neg", "Bitnot"}

BinaryOps == {"Mul", "Div", "Rem", "Add", "Sub", "Shr", "Shl", "And", "Xor", "Or"}

\* Result<T, EvalErr>, and the outcome that is no value at all: a panic,
\* which unwinds out of eval
Ok(v) == [tag |-> "Ok", val |-> v]

Invalid(n) == [tag |-> "Err", lit |-> n]

Panic == [tag |-> "Panic"]

\* T::from_i128(n).ok_or(EvalErr::Invalid(n))
narrow(n, T) ==
    LET c == from_i128(n, T) IN IF c.some THEN Ok(c.val) ELSE Invalid(n)

\* a shift amount masked with t_bits instead of t_bits - 1
shift_amount_wide_mask(r, T) ==
    LET t_bits == from_small(count_zeros(T), T)
    IN  IF ~t_bits.some THEN Panic
        ELSE LET m == to_u32(bitand(r, t_bits.val), T)
             IN  IF ~m.some THEN Panic ELSE Ok(NatOfBytes(m.val))

\* the shift amount of Shr and Shl: (r & (t_bits - T::one())).to_u32().unwrap(),
\* with t_bits = T::from(T::zero().count_zeros()).unwrap(); an unwrap of None
\* panics
shift_amount(r, T) ==
    LET t_bits == from_small(count_zeros(T), T)
    IN  IF ~t_bits.some THEN Panic
        ELSE LET m == to_u32(bitand(r, wrapping_sub(t_bits.val,
                                                     BytesOfNat(1, SizeOf(T)))), T)
             IN  IF ~m.some THEN Panic ELSE Ok(NatOfBytes(m.val))

\* one arm of the match on a binary node, both operands evaluated
apply(op, a, b, T) ==
    CASE op = "Mul" -> Ok(wrapping_mul(a, b))
      [] op = "Div" -> IF DivTraps(b) THEN Panic ELSE Ok(wrapping_div(a, b, T))
      [] op = "Rem" -> IF DivTraps(b) THEN Panic ELSE Ok(wrapping_rem(a, b, T))
      [] op = "Add" -> Ok(wrapping_add(a, b))
      [] op = "Sub" -> Ok(wrapping_sub(a, b))
      [] op = "Shr" -> LET n == shift_amount(b, T)
                       IN  IF n.tag # "Ok" THEN n
                           ELSE Ok(wrapping_shr(a, n.val, T))
      [] op = "Shl" -> LET n == shift_amount(b, T)
                       IN  IF n.tag # "Ok" THEN n
                           ELSE Ok(wrapping_shl(a, n.val))
      [] op = "And" -> Ok(bitand(a, b))
      [] op = "Xor" -> Ok(bitxor(a, b))
      [] op = "Or"  -> Ok(bitor(a, b))

\* a negation with no special handling of literals: narrow, then negate
neg_after_narrowing(n, T) ==
    LET v == narrow(n, T)
    IN  IF v.tag # "Ok" THEN v ELSE Ok(wrapping_neg(v.val))

\* Neg of a literal at a signed T: val = n.wrapping_neg() in the container,
\* then T::from_i128(val).ok_or(EvalErr::Invalid(val))
neg_literal(n, T) == narrow(wrapping_neg(n), T)

\* an evaluation that takes the right operand of a binary node first
RECURSIVE eval_right_first(_, _)
eval_right_first(e, T) ==
    IF e.op = "Num" THEN narrow(e.n, T)
    ELSE IF e.op = "Neg"
    THEN IF is_signed(T) /\ e.e.op = "Num"
         THEN neg_literal(e.e.n, T)
         ELSE LET v == eval_right_first(e.e, T)
              IN  IF v.tag # "Ok" THEN v ELSE Ok(wrapping_neg(v.val))
    ELSE IF e.op = "Bitnot"
    THEN LET v == eval_right_first(e.e, T)
         IN  IF v.tag # "Ok" THEN v ELSE Ok(not(v.val))
    ELSE LET r == eval_right_first(e.r, T)
         IN  IF r.tag # "Ok" THEN r
             ELSE LET l == eval_right_first(e.l, T)
                  IN  IF l.tag # "Ok" THEN l ELSE apply(e.op, l.val, r.val, T)

\* Expr::eval::<T>: `?` returns the first error met, left operand before right
RECURSIVE eval(_, _)
eval(e, T) ==
    IF e.op = "Num" THEN narrow(e.n, T)
    ELSE IF e.op = "Neg"
    THEN IF is_signed(T) /\ e.e.op = "Num"
         THEN neg_literal(e.e.n, T)
         ELSE LET v == eval(e.e, T)
              IN  IF v.tag # "Ok" THEN v ELSE Ok(wrapping_neg(v.val))
    ELSE IF e.op = "Bitnot"
    THEN LET v == eval(e.e, T)
         IN  IF v.tag # "Ok" THEN v ELSE Ok(not(v.val))
    ELSE LET l == eval(e.l, T)
         IN  IF l.tag # "Ok" THEN l
             ELSE LET r == eval(e.r, T)
                  IN  IF r.tag # "Ok" THEN r ELSE apply(e.op, l.val, r.val, T)

(***************************************************************************)
(* The parser (grammar::ExprParser).  A line is its sequence of tokens: a  *)
(* literal token carries the value the lexer read into the literal         *)
(* container, every other token is its text.                               *)
(***************************************************************************)

NumTok(n) == [t |-> "num", n |-> n]

Tok(s) == [t |-> s]

\* tiers in which + and - share the tier of *, / and %
PrecAddWithMul(t) ==
    CASE t \in {"*", "/", "%", "+", "-"} -> 4
      [] t \in {">>", "<<"} -> 6
      [] t = "&" -> 7
      [] t = "^" -> 8
      [] t = "|" -> 9
      [] OTHER -> 0

\* tiers in which ^ binds tighter than &
PrecXorTighter(t) ==
    CASE t \in {"*", "/", "%"} -> 4
      [] t \in {"+", "-"} -> 5
      [] t \in {">>", "<<"} -> 6
      [] t = "^" -> 7
      [] t = "&" -> 8
      [] t = "|" -> 9
      [] OTHER -> 0

\* precedence tier of a binary operator token: smaller binds tighter
Prec(t) ==
    CASE t \in {"*", "/", "%"} -> 4
      [] t \in {"+", "-"} -> 5
      [] t \in {">>", "<<"} -> 6
      [] t = "&" -> 7
      [] t = "^" -> 8
      [] t = "|" -> 9
      [] OTHER -> 0

\* the Expr variant a binary operator token builds
Variant(t) ==
    CASE t = "*" -> "Mul" [] t = "/" -> "Div" [] t = "%" -> "Rem"
      [] t = "+" -> "Add" [] t = "-" -> "Sub"
      [] t = ">>" -> "Shr" [] t = "<<" -> "Shl"
      [] t = "&" -> "And" [] t = "^" -> "Xor" [] t = "|" -> "Or"

ParseFail == [ok |-> FALSE]

\* ParseTier: an expression of binary operators of the given tier or tighter,
\* from token pos; ParseRest: the operators of that tier that follow an
\* operand already read, grouping to the left; ParseUnary: prefix operators;
\* ParsePrimary: a literal or a parenthesized expression.
RECURSIVE ParseTier(_, _, _)
RECURSIVE ParseRest(_, _, _, _)
RECURSIVE ParseUnary(_, _)
RECURSIVE ParsePrimary(_, _)
ParseTier(toks, pos, tier) ==
    IF tier < 4 THEN ParseUnary(toks, pos)
    ELSE LET l == ParseTier(toks, pos, tier - 1)
         IN  IF ~l.ok THEN l ELSE ParseRest(toks, l.pos, tier, l.ast)

ParseRest(toks, pos, tier, left) ==
    IF pos <= Len(toks) /\ Prec(toks[pos].t) = tier
    THEN LET r == ParseTier(toks, pos + 1, tier - 1)
         IN  IF ~r.ok THEN r
             ELSE ParseRest(toks, r.pos, tier,
                            Binary(Variant(toks[pos].t), left, r.ast))
    ELSE [ok |-> TRUE, ast |-> left, pos |-> pos]

ParseUnary(toks, pos) ==
    IF pos > Len(toks) THEN ParseFail
    ELSE IF toks[pos].t \in {"-", "~", "!"}
    THEN LET e == ParseUnary(toks, pos + 1)
         IN  IF ~e.ok THEN e
             ELSE [ok |-> TRUE, pos |-> e.pos,
                   ast |-> Unary(IF toks[pos].t = "-" THEN "Neg" ELSE "Bitnot",
                                 e.ast)]
    ELSE ParsePrimary(toks, pos)

ParsePrimary(toks, pos) ==
    IF pos > Len(toks) THEN ParseFail
    ELSE IF toks[pos].t = "num"
    THEN [ok |-> TRUE, ast |-> Num(toks[pos].n), pos |-> pos + 1]
    ELSE IF toks[pos].t = "("
    THEN LET e == ParseTier(toks, pos + 1, 9)
         IN  IF ~e.ok THEN e
             ELSE IF e.pos <= Len(toks) /\ toks[e.pos].t = ")"
             THEN [ok |-> TRUE, ast |-> e.ast, pos |-> e.pos + 1]
             ELSE ParseFail
    ELSE ParseFail

\* ExprParser::parse: the whole line must be one expression
parse(toks) ==
    LET e == ParseTier(toks, 1, 9)
    IN  IF e.ok /\ e.pos = Len(toks) + 1 THEN [ok |-> TRUE, ast |-> e.ast]
        ELSE ParseFail

(***************************************************************************)
(* The formatter (write_int, write_int_continue).  A line of output is the *)
(* sequence of its characters; the subscript glyphs that end the lines     *)
(* are written "_10", "_16", "_8" and "_2".                                *)
(***************************************************************************)

Base == {"Hex", "Oct"}

\* Base::bits
bits(base) == IF base = "Hex" THEN 4 ELSE 3

\* Base::subscript
subscript(base) == IF base = "Oct" THEN "_8" ELSE "_16"

div_round_up(dividend, divisor) == (dividend + divisor - 1) \div divisor

Glyphs ==
    <<"0", "1", "2", "3", "4", "5", "6", "7",
      "8", "9", "A", "B", "C", "D", "E", "F">>

Repeat(c, n) == [i \in 1..n |-> c]

Reverse(s) == [i \in 1..Len(s) |-> s[Len(s) + 1 - i]] \o <<>>

\* short division of an unsigned pattern by a small d, from byte i down to
\* the lowest with rem carried in: the quotient bytes (most-significant
\* first) and the remainder
RECURSIVE DivSmall(_, _, _, _)
DivSmall(a, d, i, rem) ==
    IF i = 0 THEN [q |-> <<>>, r |-> rem]
    ELSE LET cur == rem * 256 + a[i]
             top == cur \div d
             rest == DivSmall(a, d, i - 1, cur % d)
         IN  [q |-> <<top>> \o rest.q, r |-> rest.r]

\* the decimal digits of an unsigned pattern, none for zero
RECURSIVE DecDigits(_)
DecDigits(a) ==
    IF IsZero(a) THEN <<>>
    ELSE LET d == DivSmall(a, 10, Len(a), 0)
         IN  DecDigits(Resize(Reverse(d.q), Len(a), 0)) \o <<Glyphs[d.r + 1]>>

\* Display ({val}): the decimal digits, after a minus sign when a signed
\* value is negative
fmt_display(val, T) ==
    IF IsZero(val) THEN <<"0">>
    ELSE IF T.signed /\ SignBit(val) = 1
    THEN <<"-">> \o DecDigits(wrapping_neg(val))
    ELSE DecDigits(val)

\* the digits of a value in radix 2^k, none for zero
RECURSIVE RadixDigits(_, _)
RadixDigits(v, k) ==
    IF IsZero(v) THEN <<>>
    ELSE RadixDigits(ShrBits(v, k, 0), k)
         \o <<Glyphs[(v[1] % (2 ^ k)) + 1]>>

\* Octal, UpperHex, Binary ({:o}, {:X}, {:b}) of an unsigned value at a
\* minimum width: at least one digit, filled on the left with pad up to the
\* width, never cut to it
fmt_radix(v, k, width, pad) ==
    LET ds == IF IsZero(v) THEN <<"0">> ELSE RadixDigits(v, k)
    IN  IF Len(ds) >= width THEN ds ELSE Repeat(pad, width - Len(ds)) \o ds

\* the while loop of write_int_continue: the digits of val, least
\* significant first, until val is zero
RECURSIVE split_loop(_, _, _)
split_loop(val, digit_bits, digit_mask) ==
    IF IsZero(val) THEN <<>>
    ELSE <<bitand(val, digit_mask)>>
         \o split_loop(ShrBits(val, digit_bits, 0), digit_bits, digit_mask)

\* digit_bits, digit_mask = (1 << digit_bits) - 1, and the loop
split_digits(val, base) ==
    LET digit_bits == bits(base)
        one == BytesOfNat(1, Len(val))
        digit_mask == wrapping_sub(ShlBits(one, digit_bits), one)
    IN  split_loop(val, digit_bits, digit_mask)

\* the digits padded with zero chunks up to the full width
chunks(val, base) ==
    LET t_bits == 8 * Len(val)
        num_chunks == div_round_up(t_bits, bits(base))
        digits == split_digits(val, base)
    IN  digits \o Repeat(Zeros(Len(val)), num_chunks - Len(digits))

\* a most significant chunk as wide as every other one
top_bits_full(t_bits, base) == bits(base)

\* bits in the most significant chunk
top_bits(t_bits, base) ==
    IF t_bits % bits(base) = 0 THEN bits(base) ELSE t_bits % bits(base)

\* an alternate-radix line that blanks every chunk before the first nonzero
\* one, the least significant chunk included
RECURSIVE alt_chunks_elide(_, _, _)
alt_chunks_elide(digits, base, i) ==
    IF i >= Len(digits) THEN <<>>
    ELSE LET n == Len(digits)
             digit == digits[n - i]
             chunk_width ==
                 IF i = 0 THEN top_bits(8 * Len(digit), base) ELSE bits(base)
             seen_nonzero == \E j \in 0..i : ~IsZero(digits[n - j])
         IN  (IF i # 0 THEN <<" ">> ELSE <<>>)
             \o (IF ~seen_nonzero
                 THEN Repeat(" ", chunk_width)
                 ELSE fmt_radix(digit, bits(base), chunk_width, " "))
             \o alt_chunks_elide(digits, base, i + 1)

\* the text of chunks i.. of the alternate-radix line, i counting from 0 at
\* the most significant chunk, digits being least-significant first
RECURSIVE alt_chunks(_, _, _)
alt_chunks(digits, base, i) ==
    IF i >= Len(digits) THEN <<>>
    ELSE LET n == Len(digits)
             digit == digits[n - i]
             chunk_width ==
                 IF i = 0 THEN top_bits(8 * Len(digit), base) ELSE bits(base)
             seen_nonzero == \E j \in 0..i : ~IsZero(digits[n - j])
         IN  (IF i # 0 THEN <<" ">> ELSE <<>>)
             \o (IF ~seen_nonzero /\ i + 1 # n
                 THEN Repeat(" ", chunk_width)
                 ELSE fmt_radix(digit, bits(base), chunk_width, " "))
             \o alt_chunks(digits, base, i + 1)

\* the text of chunks i.. of the binary line
RECURSIVE bin_chunks(_, _, _)
bin_chunks(digits, base, i) ==
    IF i >= Len(digits) THEN <<>>
    ELSE LET n == Len(digits)
             digit == digits[n - i]
             chunk_width ==
                 IF i = 0 THEN top_bits(8 * Len(digit), base) ELSE bits(base)
         IN  (IF i # 0 THEN <<" ">> ELSE <<>>)
             \o fmt_radix(digit, 1, chunk_width, "0")
             \o bin_chunks(digits, base, i + 1)

\* write_int_continue: the alternate-radix line and the binary line
write_int_continue(val, base) ==
    LET digits == chunks(val, base)
    IN  << alt_chunks(digits, base, 0) \o <<subscript(base)>>,
           bin_chunks(digits, base, 0) \o <<"_2">> >>

\* write_int: the decimal line, then the rest on the unsigned view
write_int(val, T, base) ==
    <<fmt_display(val, T) \o <<"_10">>>>
    \o write_int_continue(as_unsigned(val), base)

(***************************************************************************)
(* The lines typed at the prompt.  Literals are chosen relative to the     *)
(* width w of the Kind in use: small ones, the ones around 2^(w-1) and     *)
(* 2^w, shift amounts around w, and the ones the repository's tests use.   *)
(***************************************************************************)

\* small literals are 0..MaxSmall
MaxSmall == 3

\* literals around a power of two are 2^k - MaxDelta .. 2^k + MaxDelta
MaxDelta == 1

\* the literal k, for a small natural number k
Lit(k) == BytesOfNat(k, LitBytes)

\* the literal 2^k + d
Edge(k, d) ==
    IF d >= 0 THEN wrapping_add(PowBytes(k, LitBytes), Lit(d))
    ELSE wrapping_sub(PowBytes(k, LitBytes), Lit(0 - d))

SmallLits == {Lit(k) : k \in 0..MaxSmall}

EdgeLits(T) ==
    {Edge(k, d) : k \in {T.width - 1, T.width}, d \in (0 - MaxDelta)..MaxDelta}

ShiftLits(T) == {Lit(T.width + k) : k \in (0 - 1)..MaxSmall}

TestLits == {Lit(5), Lit(7), Lit(10), Lit(23), Lit(35), Lit(300), Edge(32, 0)}

\* an operand: a literal, or a negated literal
Pos(n) == <<NumTok(n)>>

Minus(n) == <<Tok("-"), NumTok(n)>>

Signed(S) == {Pos(n) : n \in S} \cup {Minus(n) : n \in S}

InfixLines(L, ops, R) == {l \o <<Tok(o)>> \o r : l \in L, o \in ops, r \in R}

\* T::MAX of the signed and of the unsigned Kind of T's width, and 2^(w-1)
SMax(T) == Edge(T.width - 1, 0 - 1)

UMax(T) == Edge(T.width, 0 - 1)

HalfLit(T) == Edge(T.width - 1, 0)

LiteralLines(T) ==
    Signed(SmallLits \cup EdgeLits(T) \cup ShiftLits(T) \cup TestLits)

ArithLines(T) ==
    LET A == {Pos(n) : n \in SmallLits \cup {SMax(T), HalfLit(T), UMax(T)}}
             \cup {Minus(Lit(1)), Minus(HalfLit(T)), Minus(Edge(T.width, 1))}
    IN  InfixLines(A, {"+", "-", "*"}, A)

DivLines(T) ==
    InfixLines(Signed({Lit(7), Lit(10), HalfLit(T)}) \cup {Pos(SMax(T)), Pos(UMax(T))},
               {"/", "%"}, Signed(SmallLits))

ShiftLines(T) ==
    InfixLines({Pos(Lit(1)), Pos(Lit(MaxSmall)), Pos(Lit(23)), Pos(SMax(T)),
                Pos(UMax(T)), Minus(Lit(1)), Minus(HalfLit(T))},
               {">>", "<<"},
               {Pos(n) : n \in SmallLits \cup ShiftLits(T) \cup {Lit(35), SMax(T)}}
               \cup {Minus(Lit(1)), Minus(Lit(MaxSmall)), Minus(HalfLit(T))})

BitLines(T) ==
    LET B == {Pos(Lit(0)), Pos(Lit(6)), Pos(Lit(300)), Minus(Lit(MaxSmall))}
    IN  InfixLines(B, {"&", "^", "|"}, B)
        \cup {<<Tok(u), NumTok(n)>> : u \in {"~", "!"}, n \in SmallLits \cup {UMax(T)}}

\* two operators in a row, without and with parentheses
BinTokens == {"*", "/", "%", "+", "-", ">>", "<<", "&", "^", "|"}

MixedLines ==
    LET a == NumTok(Lit(7))
        b == NumTok(Lit(MaxSmall))
        c == NumTok(Lit(2))
    IN  {<<a, Tok(o1), b, Tok(o2), c>> : o1 \in BinTokens, o2 \in BinTokens}

\* the token of the literal k
N(k) == NumTok(Lit(k))

\* 10 + 2 * 5 and (10 + 2) * 5
LineAddMul == <<N(10), Tok("+"), N(2), Tok("*"), N(5)>>

LineAddThenMul ==
    <<Tok("("), N(10), Tok("+"), N(2), Tok(")"), Tok("*"), N(5)>>

\* 1 | 6 ^ 7 & 12
LineOrXorAnd == <<N(1), Tok("|"), N(6), Tok("^"), N(7), Tok("&"), N(12)>>

\* 1 | ((6 ^ 7) & 12)
LineOrOfAndOfXor ==
    <<N(1), Tok("|"), Tok("("), Tok("("), N(6), Tok("^"), N(7), Tok(")"),
      Tok("&"), N(12), Tok(")")>>

\* 1 | (6 ^ (7 & 12))
LineOrOfXorOfAnd ==
    <<N(1), Tok("|"), Tok("("), N(6), Tok("^"), Tok("("), N(7), Tok("&"),
      N(12), Tok(")"), Tok(")")>>

\* (1 | 6) ^ 7 & 12
LineOrFirst ==
    <<Tok("("), N(1), Tok("|"), N(6), Tok(")"), Tok("^"), N(7), Tok("&"),
      N(12)>>

\* 1 | (6 ^ 7) & 12
LineXorFirst ==
    <<N(1), Tok("|"), Tok("("), N(6), Tok("^"), N(7), Tok(")"), Tok("&"),
      N(12)>>

TestLines ==
    { LineAddMul, LineAddThenMul, LineOrXorAnd, LineOrOfAndOfXor,
      LineOrOfXorOfAnd, LineOrFirst, LineXorFirst,
      <<Tok("-"), N(128), Tok("-"), N(1)>>,
      <<Tok("-"), N(256), Tok("-"), N(1)>>,
      <<N(255), Tok("+"), N(1)>>,
      <<Tok("-"), N(3), Tok("*"), Tok("-"), N(15)>>,
      <<Tok("!"), Tok("("), Tok("-"), N(32), Tok(")")>>,
      <<N(10), Tok("+"), N(1), Tok(")")>>,
      <<N(10), Tok("+"), Tok("+"), N(1)>>,
      <<Tok("("), N(10), Tok("+"), N(1)>> }

\* lines with literals outside T's range in one operand or several
ErrorLines(T) ==
    LET E == {Pos(Lit(0)), Pos(Edge(T.width, 0)), Pos(Edge(T.width, 1))}
        F == E \cup {Pos(Lit(300)), Minus(Edge(T.width, 1))}
    IN  InfixLines(F, {"*", "&", "/"}, F)
        \cup InfixLines(InfixLines(E, {"*"}, E), {"+"}, E)

Lines(T) ==
    LiteralLines(T) \cup ArithLines(T) \cup DivLines(T) \cup ShiftLines(T)
    \cup BitLines(T) \cup MixedLines \cup TestLines \cup ErrorLines(T)

(***************************************************************************)
(* The program: main's read-eval-print loop around exec                    *)
(***************************************************************************)

VARIABLES
    typ,    \* args.typ: the Kind of every evaluation
    base,   \* args.base: the alternate radix of the output
    pc,     \* where main is: "prompt", "exec", "shown", "aborted", "exited"
    line,   \* the line read, as tokens
    expr,   \* the parser's result for the line
    val,    \* the evaluator's result for the expression
    out     \* the lines written to stdout for this line

vars == <<typ, base, pc, line, expr, val, out>>

NoExpr == [ok |-> FALSE]

NoVal == [tag |-> "None"]

\* Args::parse, then the first prompt
Init ==
    /\ typ \in IntType
    /\ base \in Base
    /\ pc = "prompt"
    /\ line = <<>>
    /\ expr = NoExpr
    /\ val = NoVal
    /\ out = <<>>

\* the expression of the command line, or a line rl.readline returns that is
\* not blank (a blank one leaves main at the prompt)
ReadLine ==
    /\ pc = "prompt"
    /\ \E l \in Lines(typ) : line' = l
    /\ pc' = "exec"
    /\ UNCHANGED <<typ, base, expr, val, out>>

\* exec(&line, args.base, args.typ): parse; on an error report it and return;
\* evaluate; on an error report it and return; print the value.  A panic in
\* the evaluation unwinds through exec and main: the process is gone.
Exec ==
    /\ pc = "exec"
    /\ LET p == parse(line)
           v == IF p.ok THEN eval(p.ast, typ) ELSE NoVal
       IN  /\ expr' = p
           /\ val' = v
           /\ out' = IF v.tag = "Ok" THEN write_int(v.val, typ, base) ELSE <<>>
           /\ pc' = IF v.tag = "Panic" THEN "aborted" ELSE "shown"
    /\ UNCHANGED <<typ, base, line>>

\* the loop comes back to the prompt; the line and its results are dropped
Loop ==
    /\ pc = "shown"
    /\ pc' = "prompt"
    /\ line' = <<>>
    /\ expr' = NoExpr
    /\ val' = NoVal
    /\ out' = <<>>
    /\ UNCHANGED <<typ, base>>

\* rl.readline returns Interrupted or Eof: main leaves the loop
Quit ==
    /\ pc = "prompt"
    /\ pc' = "exited"
    /\ UNCHANGED <<typ, base, line, expr, val, out>>

\* with an expression on the command line main runs exec on it once and
\* returns: no prompt follows
Return ==
    /\ pc = "shown"
    /\ pc' = "exited"
    /\ UNCHANGED <<typ, base, line, expr, val, out>>

Next == ReadLine \/ Exec \/ Loop \/ Quit \/ Return

Spec == Init /\ [][Next]_vars

(***************************************************************************)
(* Properties                                                              *)
(***************************************************************************)

\* the line has been parsed and evaluated, and its tree is a literal
LiteralShown == pc = "shown" /\ expr.ok /\ expr.ast.op = "Num"

The2To32 == Edge(32, 0)

\* C1: evaluating Literal(v) at a Kind returns v when Kind::MIN <= v <=
\* Kind::MAX, and otherwise fails with the literal-range error carrying
\* exactly v; 4294967296 fails at u32 and succeeds at u64.
C1_LiteralRange ==
    LiteralShown =>
        LET v == expr.ast.n
        IN  /\ IF ZInRange(ZLit(v), typ)
               THEN val.tag = "Ok" /\ ZEq(ZVal(val.val, typ), ZLit(v))
               ELSE val = Invalid(v)
            /\ (v = The2To32 /\ typ.name = "u32") => val = Invalid(v)
            /\ (v = The2To32 /\ typ.name = "u64") =>
                   val = Ok(<<0, 0, 0, 0, 1, 0, 0, 0>>)

\* 4294967296 has been typed at u32 and refused
C1_Witness ==
    /\ LiteralShown
    /\ typ.name = "u32"
    /\ expr.ast.n = The2To32
    /\ val.tag = "Err"
    /\ val.lit = The2To32

\* the line has been parsed and evaluated at a signed Kind, and its tree is
\* the negation of a literal
NegLiteralShown ==
    /\ pc = "shown"
    /\ expr.ok
    /\ typ.signed
    /\ expr.ast.op = "Neg"
    /\ expr.ast.e.op = "Num"

\* the tree of "-a - 1"
NegMinusOne(a) == Binary("Sub", Unary("Neg", Num(Lit(a))), Num(Lit(1)))

\* C2: at a signed Kind, Negate(Literal(v)) is -v computed in the wide
\* container and then narrowed: it is -v when -v is in range, so
\* Negate(Literal(2^(w-1))) is Kind::MIN, and it fails when -v is out of
\* range; at i8, "-128" is -128, "-128 - 1" is 127 and "-256 - 1" fails.
C2_NegateLiteral ==
    /\ NegLiteralShown =>
         LET v == expr.ast.e.n
             minus == ZNeg(ZLit(v))
         IN  /\ IF ZInRange(minus, typ)
                THEN val.tag = "Ok" /\ ZEq(ZVal(val.val, typ), minus)
                ELSE val.tag = "Err" /\ ZEq(ZLit(val.lit), minus)
             /\ v = HalfLit(typ) =>
                    val.tag = "Ok" /\ ZEq(ZVal(val.val, typ), ZMin(typ))
             /\ (typ.name = "i8" /\ v = Lit(128)) => val = Ok(<<128>>)
    /\ (pc = "shown" /\ expr.ok /\ typ.name = "i8") =>
         /\ expr.ast = NegMinusOne(128) => val = Ok(<<127>>)
         /\ expr.ast = NegMinusOne(256) => val.tag = "Err"

\* "-2^(w-1)" has been typed at a signed Kind and Kind::MIN came out
C2_Witness ==
    /\ NegLiteralShown
    /\ expr.ast.e.n = HalfLit(typ)
    /\ val.tag = "Ok"
    /\ val.val = MinBytes(SizeOf(typ))

\* the line has been parsed and evaluated, and the root of its tree is one
\* of the binary operators ops
BinaryShown(ops) == pc = "shown" /\ expr.ok /\ expr.ast.op \in ops

\* the operands of the root, evaluated
LeftVal == eval(expr.ast.l, typ)

RightVal == eval(expr.ast.r, typ)

OperandsOk == LeftVal.tag = "Ok" /\ RightVal.tag = "Ok"

\* the literal Kind::MAX
MaxLit(T) == IF T.signed THEN SMax(T) ELSE UMax(T)

\* the result of Add, Sub or Mul on mathematical integers
ZArith(op, x, y) ==
    CASE op = "Add" -> ZAdd(x, y)
      [] op = "Sub" -> ZSub(x, y)
      [] op = "Mul" -> ZMul(x, y)

\* C3: when both operands evaluate to a and b, Add, Sub and Mul return a
\* value of the Kind congruent modulo 2^w to the mathematical a + b, a - b,
\* a * b, never an error; at u8 "255 + 1" is 0, "MAX + 1" is
\* MAX.wrapping_add(1) and "0 - 1" is 0.wrapping_sub(1) at every Kind.
C3_ArithmeticWraps ==
    (BinaryShown({"Add", "Sub", "Mul"}) /\ OperandsOk) =>
        /\ val.tag = "Ok"
        /\ Len(val.val) = SizeOf(typ)
        /\ ZCongruent(ZVal(val.val, typ),
                      ZArith(expr.ast.op, ZVal(LeftVal.val, typ),
                             ZVal(RightVal.val, typ)),
                      typ.width)
        /\ (typ.name = "u8"
            /\ expr.ast = Binary("Add", Num(Lit(255)), Num(Lit(1)))) =>
               val = Ok(<<0>>)
        /\ expr.ast = Binary("Add", Num(MaxLit(typ)), Num(Lit(1))) =>
               val = Ok(IF typ.signed THEN MinBytes(SizeOf(typ))
                        ELSE Zeros(SizeOf(typ)))
        /\ expr.ast = Binary("Sub", Num(Lit(0)), Num(Lit(1))) =>
               val = Ok(AllOnes(SizeOf(typ)))

\* "MAX + 1" has been typed and a value came out
C3_Witness ==
    /\ BinaryShown({"Add"})
    /\ expr.ast = Binary("Add", Num(MaxLit(typ)), Num(Lit(1)))
    /\ val.tag = "Ok"

\* 2^k as a mathematical integer
ZPow2(k) == ZMk(FALSE, NPow2(k))

\* the k with 2^k = w, for the widths 8, 16, 32, 64
Log2(w) == CHOOSE k \in 3..6 : 2 ^ k = w

\* s mod w for the right operand s: the amount in 0..w-1 that differs from
\* s by a multiple of w
ShiftBy ==
    CHOOSE k \in 0..(typ.width - 1) :
        ZCongruent(ZNat(k), ZVal(RightVal.val, typ), Log2(typ.width))

\* x is y / 2^k rounded down
ZFloorShift(x, y, k) ==
    /\ ZLe(ZMul(x, ZPow2(k)), y)
    /\ ZLess(y, ZMul(ZAdd(x, ZNat(1)), ZPow2(k)))

\* C4: when the operands evaluate to a and s, ShiftLeft and ShiftRight
\* shift a by s mod w, for every s including negative ones, and never fail
\* or abort: the result of Shl is a * 2^(s mod w) modulo 2^w, that of Shr is
\* a / 2^(s mod w) rounded down.  At a 32-bit Kind "1 << 35" and "1 << 3"
\* are both 8.
C4_ShiftAmountMasked ==
    (BinaryShown({"Shl", "Shr"}) /\ OperandsOk) =>
        LET a == ZVal(LeftVal.val, typ)
            k == ShiftBy
            v == ZVal(val.val, typ)
        IN  /\ val.tag = "Ok"
            /\ Len(val.val) = SizeOf(typ)
            /\ k = RightVal.val[1] % typ.width
            /\ expr.ast.op = "Shl" =>
                   ZCongruent(v, ZMul(a, ZPow2(k)), typ.width)
            /\ expr.ast.op = "Shr" => ZFloorShift(v, a, k)
            /\ (typ.width = 32
                /\ expr.ast \in {Binary("Shl", Num(Lit(1)), Num(Lit(35))),
                                 Binary("Shl", Num(Lit(1)), Num(Lit(3)))}) =>
                   val = Ok(<<8, 0, 0, 0>>)

\* "1 << -1" has been typed at a signed Kind: the amount is w - 1 and the
\* value is the top bit alone
C4_Witness ==
    /\ BinaryShown({"Shl"})
    /\ typ.signed
    /\ expr.ast = Binary("Shl", Num(Lit(1)), Unary("Neg", Num(Lit(1))))
    /\ ShiftBy = typ.width - 1
    /\ val = Ok(MinBytes(SizeOf(typ)))

\* C5: ShiftRight is arithmetic at a signed Kind and logical at an unsigned
\* one: with the operands evaluated to a and s and k = s mod w, bit i of
\* the result is bit i + k of a for i + k < w, and every bit above is a's
\* sign bit when the Kind is signed and 0 when it is unsigned.  For signed
\* Kinds "-1 >> 1" is -1 and "MIN >> 1" is MIN / 2.
C5_ShiftRightFill ==
    (BinaryShown({"Shr"}) /\ OperandsOk) =>
        LET a == LeftVal.val
            k == ShiftBy
            fill == IF typ.signed THEN SignBit(a) ELSE 0
        IN  /\ val.tag = "Ok"
            /\ \A i \in 0..(typ.width - 1) :
                   Bit(val.val, i) =
                       IF i + k < typ.width THEN Bit(a, i + k) ELSE fill
            /\ (typ.signed
                /\ expr.ast = Binary("Shr", Unary("Neg", Num(Lit(1))),
                                     Num(Lit(1)))) =>
                   ZEq(ZVal(val.val, typ), ZNeg(ZNat(1)))
            /\ (typ.signed
                /\ expr.ast = Binary("Shr", Unary("Neg", Num(HalfLit(typ))),
                                     Num(Lit(1)))) =>
                   ZEq(ZMul(ZVal(val.val, typ), ZNat(2)), ZMin(typ))

\* "MIN >> 1" has been typed at a signed Kind and a negative value came out
C5_Witness ==
    /\ BinaryShown({"Shr"})
    /\ typ.signed
    /\ expr.ast = Binary("Shr", Unary("Neg", Num(HalfLit(typ))), Num(Lit(1)))
    /\ val.tag = "Ok"
    /\ SignBit(val.val) = 1

\* Q is x / y truncated toward zero: what is left, x - Q * y, is smaller in
\* magnitude than y and is zero or has the sign of x
ZIsTruncQuot(Q, x, y) ==
    LET R == ZSub(x, ZMul(Q, y))
    IN  NLess(R.mag, y.mag) /\ (IsZero(R.mag) \/ R.neg = x.neg)

\* C6: when the operands evaluate to a and b with b # 0, Div returns a / b
\* truncated toward zero and Rem returns a - b * trunc(a / b), which has the
\* sign of a, both wrapped into the Kind: at a signed Kind MIN / -1 is MIN
\* and MIN % -1 is 0; "10/3" is 3 and "10 % 3" is 1.
C6_DivRemTruncate ==
    (BinaryShown({"Div", "Rem"}) /\ OperandsOk /\ ~IsZero(RightVal.val)) =>
        LET a == ZVal(LeftVal.val, typ)
            b == ZVal(RightVal.val, typ)
            v == ZVal(val.val, typ)
            overflow ==
                typ.signed /\ ZEq(a, ZMin(typ)) /\ ZEq(b, ZNeg(ZNat(1)))
            Q == IF overflow THEN ZNeg(a)
                 ELSE ZVal(wrapping_div(LeftVal.val, RightVal.val, typ), typ)
            R == ZSub(a, ZMul(b, Q))
        IN  /\ val.tag = "Ok"
            /\ Len(val.val) = SizeOf(typ)
            /\ ZIsTruncQuot(Q, a, b)
            /\ expr.ast.op = "Div" =>
                   /\ ZCongruent(v, Q, typ.width)
                   /\ ~overflow => ZEq(v, Q)
                   /\ overflow => ZEq(v, ZMin(typ))
            /\ expr.ast.op = "Rem" =>
                   /\ ZEq(v, R)
                   /\ IsZero(v.mag) \/ v.neg = a.neg
                   /\ overflow => IsZero(v.mag)
            /\ expr.ast = Binary("Div", Num(Lit(10)), Num(Lit(3))) =>
                   ZEq(v, ZNat(3))
            /\ expr.ast = Binary("Rem", Num(Lit(10)), Num(Lit(3))) =>
                   ZEq(v, ZNat(1))

\* "MIN / -1" has been typed at a signed Kind and MIN came out
C6_Witness ==
    /\ BinaryShown({"Div"})
    /\ typ.signed
    /\ expr.ast = Binary("Div", Unary("Neg", Num(HalfLit(typ))),
                         Unary("Neg", Num(Lit(1))))
    /\ val = Ok(MinBytes(SizeOf(typ)))

\* C7: every failure of evaluate is an error value, never a fatal abort:
\* for every tree, those with Div and Rem nodes and any operand values
\* included, evaluate returns a value or the literal-range error.
C7_EvaluateNeverAborts ==
    (pc \in {"shown", "aborted"} /\ expr.ok) =>
        /\ val.tag \in {"Ok", "Err"}
        /\ pc # "aborted"

\* a line whose tree divides by an operand that evaluates to zero has been
\* typed: the evaluation panicked and the process is gone
C7_Witness ==
    /\ pc = "aborted"
    /\ expr.ok
    /\ expr.ast.op \in {"Div", "Rem"}
    /\ LeftVal.tag = "Ok"
    /\ RightVal.tag = "Ok"
    /\ IsZero(RightVal.val)
    /\ val = Panic

\* what evaluating a line of tokens gives at the Kind in use
EvalOf(l) == eval(parse(l).ast, typ)

\* C8 as stated: at every Kind "1 | 6 ^ 7 & 12" evaluates to what
\* "1 | ((6 ^ 7) & 12)" evaluates to.
C8_AsStated ==
    (pc = "shown" /\ line = LineOrXorAnd) =>
        /\ parse(LineOrOfAndOfXor).ok
        /\ val = EvalOf(LineOrOfAndOfXor)

\* C8, amended: at every Kind "1 | 6 ^ 7 & 12" evaluates to what
\* "1 | (6 ^ (7 & 12))" evaluates to, which is 3 (& binds tighter than ^,
\* which binds tighter than |), and "1 | ((6 ^ 7) & 12)" evaluates to 1.
C8_PrecedenceOrdering ==
    /\ (pc = "shown" /\ line = LineOrXorAnd) =>
           /\ expr = parse(LineOrOfXorOfAnd)
           /\ val = EvalOf(LineOrOfXorOfAnd)
           /\ val = Ok(BytesOfNat(3, SizeOf(typ)))
    /\ (pc = "shown" /\ line = LineOrOfAndOfXor) =>
           val = Ok(BytesOfNat(1, SizeOf(typ)))

\* "1 | 6 ^ 7 & 12" has been typed and evaluated
C8_Witness ==
    /\ pc = "shown"
    /\ line = LineOrXorAnd
    /\ expr.ok
    /\ val.tag = "Ok"

\* the tiers of the binary operators, tightest first
Tiers == <<{"*", "/", "%"}, {"+", "-"}, {">>", "<<"}, {"&"}, {"^"}, {"|"}>>

TierOf(t) == CHOOSE i \in 1..Len(Tiers) : t \in Tiers[i]

\* the line is "a o1 b o2 c": three literals and two binary operators
TwoOperatorLine ==
    /\ Len(line) = 5
    /\ \A i \in {1, 3, 5} : line[i].t = "num"
    /\ \A i \in {2, 4} : line[i].t \in BinTokens

\* the value k at the Kind in use
Value(k) == Ok(BytesOfNat(k, SizeOf(typ)))

Body(l) == SubSeq(l, 1, Len(l) - 1)

\* the groups of a text: its maximal runs of characters other than spaces
RECURSIVE Groups(_)
Groups(s) ==
    IF s = <<>> THEN <<>>
    ELSE IF Head(s) = " " THEN Groups(Tail(s))
    ELSE LET stop == CHOOSE i \in 2..(Len(s) + 1) :
                         /\ i = Len(s) + 1 \/ s[i] = " "
                         /\ \A j \in 2..(i - 1) : s[j] # " "
         IN  <<SubSeq(s, 1, stop - 1)>> \o Groups(SubSeq(s, stop, Len(s)))

\* the digit a character stands for
DigitOf(c) == CHOOSE d \in 0..15 : Glyphs[d + 1] = c

\* the number a group of digits of radix r stands for
RECURSIVE GroupValue(_, _)
GroupValue(g, r) ==
    IF g = <<>> THEN 0
    ELSE r * GroupValue(SubSeq(g, 1, Len(g) - 1), r) + DigitOf(g[Len(g)])

\* a natural number without its leading zero bytes
RECURSIVE NTrim(_)
NTrim(x) ==
    IF x = <<>> \/ x[Len(x)] # 0 THEN x
    ELSE NTrim(SubSeq(x, 1, Len(x) - 1))

\* acc = (acc << chunk_bits) + digit over the groups, most-significant
\* first, on natural numbers: nothing is cut
RECURSIVE Reassemble(_, _, _)
Reassemble(gs, r, chunk_bits) ==
    IF gs = <<>> THEN <<>>
    ELSE LET acc == Reassemble(SubSeq(gs, 1, Len(gs) - 1), r, chunk_bits)
             digit == GroupValue(gs[Len(gs)], r)
         IN  NTrim(NAdd(NMul(acc, <<2 ^ chunk_bits>>), <<digit>>))

\* the radix of the alternate-radix line
Radix(b) == 2 ^ bits(b)

\* C10: for every Kind, value v and radix, reading the digits of the
\* alternate-radix line most-significant first with acc = (acc <<
\* chunk_bits) + digit gives v's bit pattern, and so does reading the
\* groups of the binary line, shifting by chunk_bits per group; at a signed
\* Kind the pattern is v's bytes read as an unsigned number of the Kind's
\* width, never a sign-extended one.
C10_FormatterRoundTrip ==
    (pc = "shown" /\ val.tag = "Ok") =>
        LET alt == Groups(Body(out[2]))
            bin == Groups(Body(out[3]))
        IN  /\ Len(out) = 3
            /\ out[2][Len(out[2])] = subscript(base)
            /\ out[3][Len(out[3])] = "_2"
            /\ \A i \in 1..Len(alt) : Len(alt[i]) = 1
            /\ NEq(Reassemble(alt, Radix(base), bits(base)), val.val)
            /\ NEq(Reassemble(bin, 2, bits(base)), val.val)
            /\ Len(bin) = div_round_up(typ.width, bits(base))

\* a negative value of a signed Kind has been printed
C10_Witness ==
    /\ pc = "shown"
    /\ val.tag = "Ok"
    /\ typ.signed
    /\ SignBit(val.val) = 1
    /\ Len(out) = 3
    /\ Len(Groups(Body(out[2]))) = div_round_up(typ.width, bits(base))

\* ceil(w / chunk_bits): the n with (n - 1) * chunk_bits < w <= n * chunk_bits
ChunkCount(w, cb) == CHOOSE n \in 1..w : (n - 1) * cb < w /\ w <= n * cb

\* columns of chunk i, chunk 1 the most significant
ChunkWidth(i, w, cb) == IF i = 1 /\ w % cb # 0 THEN w % cb ELSE cb

\* the column chunk i starts at: the chunks before it and a space after each
RECURSIVE ChunkStart(_, _, _)
ChunkStart(i, w, cb) ==
    IF i = 1 THEN 1
    ELSE ChunkStart(i - 1, w, cb) + ChunkWidth(i - 1, w, cb) + 1

\* the columns of chunk i of a line
ChunkText(l, i, w, cb) ==
    SubSeq(l, ChunkStart(i, w, cb),
           ChunkStart(i, w, cb) + ChunkWidth(i, w, cb) - 1)

\* a text of spaces followed by digits: digits pushed to the right of
\* their columns
RightAligned(t) ==
    \E k \in 0..Len(t) :
        /\ \A j \in 1..k : t[j] = " "
        /\ \A j \in (k + 1)..Len(t) : t[j] # " "

\* C11: for every Kind of width w, value and radix, the alternate-radix
\* line and the binary line each hold ceil(w / chunk_bits) chunks with one
\* space between neighbours; the most significant chunk has w mod
\* chunk_bits columns (chunk_bits when that is 0), every other chunk has
\* chunk_bits; the two lines have the same length before their markers and
\* the same chunk boundaries, and no chunk's digits leave its columns.
C11_ChunkLayout ==
    (pc = "shown" /\ val.tag = "Ok") =>
        LET w == typ.width
            cb == bits(base)
            n == ChunkCount(w, cb)
            alt == Body(out[2])
            bin == Body(out[3])
            last == ChunkStart(n, w, cb) + ChunkWidth(n, w, cb) - 1
        IN  /\ Len(alt) = last
            /\ Len(bin) = last
            /\ \A i \in 1..(n - 1) :
                   LET sep == ChunkStart(i + 1, w, cb) - 1
                   IN  alt[sep] = " " /\ bin[sep] = " "
            /\ \A i \in 1..n :
                   LET b == ChunkText(bin, i, w, cb)
                   IN  /\ RightAligned(ChunkText(alt, i, w, cb))
                       /\ \A j \in 1..Len(b) : b[j] \in {"0", "1"}
            /\ Len(Groups(bin)) = n

\* a value with a nonzero most significant chunk has been printed in octal
\* at a width that 3 does not divide
C11_Witness ==
    /\ pc = "shown"
    /\ val.tag = "Ok"
    /\ base = "Oct"
    /\ SignBit(val.val) = 1
    /\ ChunkWidth(1, typ.width, bits(base)) < bits(base)
    /\ Len(out) = 3
    /\ out[2][1] # " "

\* the bits chunk i of a pattern of w bits holds, chunk 1 the most
\* significant: lowest bit and number of bits
ChunkLow(i, w, cb) == (ChunkCount(w, cb) - i) * cb

\* the number chunk i of the pattern a holds
RECURSIVE BitsValue(_, _, _)
BitsValue(a, lo, k) ==
    IF k = 0 THEN 0 ELSE Bit(a, lo) + 2 * BitsValue(a, lo + 1, k - 1)

ChunkValue(a, i, w, cb) ==
    BitsValue(a, ChunkLow(i, w, cb), ChunkWidth(i, w, cb))

\* a text of n spaces
Blank(n) == [j \in 1..n |-> " "]

\* C12: on the alternate-radix line every zero chunk above the most
\* significant nonzero chunk is blank over its full width, every chunk from
\* the most significant nonzero one down is its digit (a zero inside shows
\* as 0), and the least significant chunk is always a digit, so 0 shows as
\* a single 0 in the last chunk; on the binary line every chunk, leading
\* zero chunks included, shows all its bits.
C12_LeadingZeroChunks ==
    (pc = "shown" /\ val.tag = "Ok") =>
        LET w == typ.width
            cb == bits(base)
            n == ChunkCount(w, cb)
            a == val.val
            alt == Body(out[2])
            bin == Body(out[3])
            nonzero == {i \in 1..n : ChunkValue(a, i, w, cb) # 0}
            first == IF nonzero = {} THEN n
                     ELSE CHOOSE i \in nonzero : \A j \in nonzero : i <= j
        IN  \A i \in 1..n :
                LET width == ChunkWidth(i, w, cb)
                    v == ChunkValue(a, i, w, cb)
                    low == ChunkLow(i, w, cb)
                IN  /\ ChunkText(alt, i, w, cb) =
                           IF i < first THEN Blank(width)
                           ELSE Blank(width - 1) \o <<Glyphs[v + 1]>>
                    /\ ChunkText(bin, i, w, cb) =
                           [j \in 1..width |->
                               Glyphs[Bit(a, low + width - j) + 1]]

\* 2^32 has been printed in hex at a 64-bit Kind: blanks, a 1, zeros
C12_Witness ==
    /\ pc = "shown"
    /\ base = "Hex"
    /\ typ.width = 64
    /\ val = Ok(<<0, 0, 0, 0, 1, 0, 0, 0>>)
    /\ Len(out) = 3
    /\ out[2][1] = " "
    /\ out[2][Len(out[2]) - 1] = "0"

\* the first literal of a tree, left operand before right, that is outside
\* T's range, with the integer that was judged: the literal itself, or its
\* negation when T is signed and the literal is the operand of a Neg
NoneBad == [bad |-> FALSE]

RECURSIVE FirstBad(_, _)
FirstBad(e, T) ==
    IF e.op = "Num"
    THEN IF ZInRange(ZLit(e.n), T) THEN NoneBad
         ELSE [bad |-> TRUE, z |-> ZLit(e.n)]
    ELSE IF e.op = "Neg" /\ T.signed /\ e.e.op = "Num"
    THEN IF ZInRange(ZNeg(ZLit(e.e.n)), T) THEN NoneBad
         ELSE [bad |-> TRUE, z |-> ZNeg(ZLit(e.e.n))]
    ELSE IF e.op \in UnaryOps THEN FirstBad(e.e, T)
    ELSE LET l == FirstBad(e.l, T)
         IN  IF l.bad THEN l ELSE FirstBad(e.r, T)

\* C13: for every Kind and every tree that does not divide by zero,
\* evaluate succeeds exactly when every literal of the tree is in the
\* Kind's range (at a signed Kind the operand of a Neg being judged by its
\* negation), literals that cannot change the result included; when it
\* fails the error is that of the first offending literal, left operand
\* before right, and carries the integer that was judged.  At u8 "0 & 300",
\* "0 * 300" and "-256" fail.
C13_ErrorPropagation ==
    (pc = "shown" /\ expr.ok) =>
        LET first == FirstBad(expr.ast, typ)
        IN  /\ val.tag = "Ok" <=> ~first.bad
            /\ first.bad => val.tag = "Err" /\ ZEq(ZLit(val.lit), first.z)
            /\ typ.name = "u8" =>
                   /\ expr.ast \in {Binary("And", Num(Lit(0)), Num(Lit(300))),
                                    Binary("Mul", Num(Lit(0)), Num(Lit(300)))}
                          => val = Invalid(Lit(300))
                   /\ expr.ast = Unary("Neg", Num(Lit(256)))
                          => val = Invalid(Lit(256))

\* a product of two literals that are both out of range, the left one
\* 2^w and the right one 2^w + 1, has been typed: the error is the left's
C13_Witness ==
    /\ pc = "shown"
    /\ expr.ok
    /\ expr.ast = Binary("Mul", Num(Edge(typ.width, 0)), Num(Edge(typ.width, 1)))
    /\ val = Invalid(Edge(typ.width, 0))

=============================================================================
